---- MODULE Spec2Model ----
(***************************************************************************)
(* A model of kiss-tnc (src/index.js): the KISS byte escaper, the frame    *)
(* encoder KISSSender and the frame decoder KISSReceiver.                  *)
(*                                                                         *)
(* Byte arrays and Buffers are sequences of numbers 0..255.  The helper    *)
(* operators indexOf, slice and splice take the 0-based indices of the     *)
(* JavaScript methods they model.  A value that may be undefined or null   *)
(* is Null or Some(v).                                                     *)
(***************************************************************************)
EXTENDS Integers, Sequences, FiniteSets, TLC

\* ----------------------------------------------------------------- bounds

\* Longest byte sequence given to the escaper in SpecCodec.
MaxRaw == 3
\* Most bytes fed to a decoder in SpecRecv, over all its chunks.
MaxStream == 4
\* Longest frame content given to a decoder in SpecFrames.
MaxContent == 4
\* Most payload writes to an encoder.
MaxWrites == 2
\* Most payload bytes written to an encoder, over all its writes.
MaxWritten == 3

\* -------------------------------------------------------------- constants

FEND == 192
FESC == 219
TFEND == 220
TFESC == 221

\* The exit-KISS command byte of KISSSender._flush.
ExitKiss == 255

\* A JavaScript value that is false, undefined or -1 where a byte or an
\* index is expected.
False == 0
NotFound == 0 - 1

Null == << >>
Some(v) == << v >>
Get(o) == o[1]

\* ----------------------------------------------------------- array helpers

Min(a, b) == IF a < b THEN a ELSE b

\* Array.prototype.indexOf: the 0-based index of the first x, or -1.
indexOf(arr, x) ==
    IF \E k \in 1..Len(arr) : arr[k] = x
    THEN (CHOOSE k \in 1..Len(arr) :
              arr[k] = x /\ \A j \in 1..(k - 1) : arr[j] # x) - 1
    ELSE NotFound

\* Array.prototype.slice(from, to) with 0 <= from: elements from..to-1.
slice(arr, from, to) == SubSeq(arr, from + 1, Min(to, Len(arr)))

\* Array.prototype.splice(start, deleteCount, ...items), as the new array.
splice(arr, start, deleteCount, items) ==
    slice(arr, 0, start) \o items \o slice(arr, start + deleteCount, Len(arr))

\* Array element, undefined (False) past the end.
at(arr, i) == IF i < Len(arr) THEN arr[i + 1] ELSE False

\* All sequences over S of length at most n.
SeqsUpTo(S, n) == UNION { [1..k -> S] : k \in 0..n }

RECURSIVE Concat(_)
Concat(seqs) == IF seqs = << >> THEN << >> ELSE Head(seqs) \o Concat(Tail(seqs))

RECURSIVE SumLen(_)
SumLen(seqs) == IF seqs = << >> THEN 0 ELSE Len(Head(seqs)) + SumLen(Tail(seqs))

\* ------------------------------------------------------------ byte escaper

\* replacementMap[b]: undefined (False) for a byte that is no key.
replacementMap(b) ==
    IF b = TFEND THEN FEND ELSE IF b = TFESC THEN FESC ELSE False

foundEnd(current) == IF current = FEND THEN TFEND ELSE False

foundEscapeNever(current) == False

foundEscape(current) == IF current = FESC THEN TFESC ELSE False

\* The while loop of kissEscape over buf from index i.
RECURSIVE kissEscapeLoop(_, _)
kissEscapeLoop(buf, i) ==
    IF i < Len(buf)
    THEN LET current == buf[i + 1]
             found == IF foundEnd(current) # False
                      THEN foundEnd(current)
                      ELSE foundEscape(current)
         IN  IF found # False
             THEN kissEscapeLoop(splice(buf, i, 1, << FESC, found >>), i + 2)
             ELSE kissEscapeLoop(buf, i + 1)
    ELSE buf

kissEscape(chunk) == kissEscapeLoop(chunk, 0)

\* The while loop of interpretMessage: every pass looks for the first FESC
\* of the whole content again.
RECURSIVE unescapeLoop(_)
unescapeLoop(content) ==
    LET escapeIndex == indexOf(content, FESC)
    IN  IF escapeIndex # NotFound
        THEN LET replacement == replacementMap(at(content, escapeIndex + 1))
                 items == IF replacement # False THEN << replacement >> ELSE << >>
             IN  unescapeLoop(splice(content, escapeIndex, 2, items))
        ELSE content

\* ------------------------------------------------------- decoder, per call

\* What a decoder pushes: a Buffer, or in object mode a record.
Buffer(bytes) == [ kind |-> "Buffer", data |-> bytes ]
Object(port, bytes) == [ kind |-> "object", portIndex |-> port, data |-> bytes ]

\* commandByte >> 4
shr4(commandByte) == commandByte \div 16

\* KISSReceiver.interpretMessage.  const [commandByte, ...content] = message
\* leaves commandByte undefined for an empty message.
interpretMessage(message, objectMode, commandByteMode) ==
    LET commandByte == at(message, 0)
        content == unescapeLoop(slice(message, 1, Len(message)))
    IN  IF objectMode
        THEN Object(shr4(commandByte), content)
        ELSE IF commandByteMode
             THEN Buffer(<< commandByte >> \o content)
             ELSE Buffer(content)

\* The test of _transform that a run between two markers is a message.
isMessage(nextMessage) == Len(nextMessage) > 0

transformHeadAnyChunk(received, um) ==
    IF um # Null
    THEN [ messages |-> << Get(um) >>, um |-> Null ]
    ELSE [ messages |-> << >>, um |-> um ]

transformHeadKeepsBuffer(received, um) ==
    IF at(received, 0) = FEND /\ um # Null
    THEN [ messages |-> << Get(um) >>, um |-> um ]
    ELSE [ messages |-> << >>, um |-> um ]

\* The first if of _transform: a chunk that starts with FEND closes the
\* buffered run.  The result is the messages array and the new buffer.
transformHead(received, um) ==
    IF at(received, 0) = FEND /\ um # Null
    THEN [ messages |-> << Get(um) >>, um |-> Null ]
    ELSE [ messages |-> << >>, um |-> um ]

nextMessageWithMarker(received, fendIndex) == slice(received, 0, fendIndex + 1)

\* const nextMessage = received.slice(0, fendIndex)
nextMessageOf(received, fendIndex) == slice(received, 0, fendIndex)

pushMessageFirst(messages, message) == << message >> \o messages

\* messages.push(message)
pushMessage(messages, message) == Append(messages, message)

\* The while loop of _transform.
RECURSIVE transformLoop(_, _, _)
transformLoop(received, um, messages) ==
    LET fendIndex == indexOf(received, FEND)
    IN  IF fendIndex # NotFound
        THEN LET nextMessage == nextMessageOf(received, fendIndex)
                 rest == slice(received, fendIndex + 1, Len(received))
             IN  IF isMessage(nextMessage)
                 THEN IF um # Null
                      THEN transformLoop(rest, Null,
                               pushMessage(messages, Get(um) \o nextMessage))
                      ELSE transformLoop(rest, um, pushMessage(messages, nextMessage))
                 ELSE transformLoop(rest, um, messages)
        ELSE [ received |-> received, um |-> um, messages |-> messages ]

\* The last if of _transform: the bytes after the last marker are assigned
\* to the buffer.
transformTail(received, um) == IF Len(received) > 0 THEN Some(received) ELSE um

\* this.push(message) of a Transform, by the messages it adds to the
\* readable side: in byte mode a Buffer of no bytes is dropped and the
\* consumer gets no 'data' for it; in object mode every message is kept.
push(message, objectMode) ==
    IF ~objectMode /\ Len(message.data) = 0 THEN << >> ELSE << message >>

\* What a sequence of calls of this.push adds to the readable side.
RECURSIVE pushEach(_, _)
pushEach(pushed, objectMode) ==
    IF pushed = << >>
    THEN << >>
    ELSE push(Head(pushed), objectMode) \o pushEach(Tail(pushed), objectMode)

\* KISSReceiver._transform: the new buffer, the messages array, the
\* arguments of its calls of this.push, and the messages it emits.
transform(chunk, um, objectMode, commandByteMode) ==
    LET h == transformHead(chunk, um)
        l == transformLoop(chunk, h.um, h.messages)
        pushed == [ k \in 1..Len(l.messages) |->
                      interpretMessage(l.messages[k], objectMode, commandByteMode) ]
    IN  [ um |-> transformTail(l.received, l.um),
          messages |-> l.messages,
          pushed |-> pushed,
          emitted |-> pushEach(pushed, objectMode) ]

\* KISSReceiver._flush: the arguments of its calls of this.push.
flush(um, objectMode, commandByteMode) ==
    IF um # Null
    THEN LET portIndex == shr4(Head(Get(um)))
         IN  IF objectMode
             THEN << Object(portIndex, slice(Get(um), 1, Len(Get(um)))) >>
             ELSE IF commandByteMode
                  THEN << Buffer(Get(um)) >>
                  ELSE << Buffer(slice(Get(um), 1, Len(Get(um)))) >>
    ELSE << >>

\* ------------------------------------------------------- encoder, per call

\* A value of opts.portIndex: an integer, or something that is none, such
\* as 1.5 or "3" (truthy) and NaN or null (falsy).
PInt(n) == [ isInteger |-> TRUE, truthy |-> n # 0, n |-> n ]
PNonInteger(truthy) == [ isInteger |-> FALSE, truthy |-> truthy, n |-> 0 ]

\* A value of opts.hardware: a string (by its bytes) or an array of bytes.
HString(bytes) == [ isString |-> TRUE, bytes |-> bytes ]
HArray(bytes) == [ isString |-> FALSE, bytes |-> bytes ]

propertiesByKind == << "txDelay", "persistence", "slotTime", "txTail", "fullDuplex", "hardware" >>

properties == << "fullDuplex", "hardware", "persistence", "slotTime", "txDelay", "txTail" >>

\* The low nibble of commandBytes[command] in getCommandBuilder.
commandKind(command) ==
    CASE command = "fullDuplex" -> 5
      [] command = "hardware" -> 6
      [] command = "persistence" -> 2
      [] command = "slotTime" -> 3
      [] command = "txDelay" -> 1
      [] command = "txTail" -> 4

\* parseInt(`${ports[portIndex]}${digit}`, 16)
parseHex(portIndex, digit) == 16 * portIndex + digit

toByteWhole(num, den) == num % 256

\* Buffer.from([...]) of the number num / den, neither negative: its
\* integer part, modulo 256.
toByte(num, den) == (num \div den) % 256

commandValuesAlways(property, value) ==
    CASE property = "fullDuplex" -> Some(<< IF value THEN 1 ELSE 0 >>)
      [] property = "hardware" -> Some(value.bytes)
      [] property = "persistence" -> Some(<< toByte(value, 1) >>)
      [] OTHER -> Some(<< toByte(value, 10) >>)

\* The bytes outboundCommand(property, this[property]) puts between the
\* command byte and the closing FEND, or Null when this[property] is falsy
\* and nothing is pushed.  value is opts[property].
commandValues(property, value) ==
    CASE property = "fullDuplex" -> IF value THEN Some(<< 1 >>) ELSE Null
      [] property = "hardware" ->
            IF value.isString /\ value.bytes = << >>
            THEN Null
            ELSE Some(value.bytes)
      [] property = "persistence" ->
            IF value # 0 THEN Some(<< toByte(value, 1) >>) ELSE Null
      [] OTHER -> IF value # 0 THEN Some(<< toByte(value, 10) >>) ELSE Null

\* The frames the forEach of the constructor pushes for properties k.. .
RECURSIVE initFrames(_, _, _)
initFrames(opts, portIndex, k) ==
    IF k > Len(properties)
    THEN << >>
    ELSE LET property == properties[k]
             values == IF opts[property] = Null
                       THEN Null
                       ELSE commandValues(property, Get(opts[property]))
         IN  (IF values = Null
              THEN << >>
              ELSE << << FEND, parseHex(portIndex, commandKind(property)) >>
                      \o Get(values) \o << FEND >> >>)
             \o initFrames(opts, portIndex, k + 1)

\* const portIndex = opts.portIndex || 0
portIndexOf(opts) ==
    IF opts.portIndex = Null \/ ~Get(opts.portIndex).truthy
    THEN PInt(0)
    ELSE Get(opts.portIndex)

\* Whether the constructor throws.
throws(p) == ~p.isInteger \/ p.n < 0 \/ p.n > 15

exitKissFramePerPort(portIndex) == << FEND, parseHex(portIndex, 15), FEND >>

\* The frame of KISSSender._flush.
exitKissFrame(portIndex) == << FEND, ExitKiss, FEND >>

\* ------------------------------------------------------------------- state

VARIABLES
    \* the escaper on its own: an input, its escape, the unescape of that
    raw, escaped, unescaped,
    \* a KISSSender: the opts it is constructed with, whether it is "new",
    \* "open", "failed" (the constructor threw) or "ended", its fields, the
    \* frames it has pushed, how many of them the constructor pushed, and
    \* the payloads written to it
    sOpts, sState, portIndex, dataStart, dataEnd, sOut, sInit, sWrites,
    \* a KISSReceiver: its two mode flags, its buffer, the messages it has
    \* emitted (the 'data' a consumer gets, in order), those of the last
    \* call of _transform or _flush, the argument of every call of
    \* this.push, those of the last call of _transform or _flush, the byte
    \* run each call of this.push was made for, the chunks the decoder was
    \* given, and whether its input has ended
    readableObjectMode, emitCommandByte, unterminatedMessage, rOut, rLast,
    rPushed, rLastPushed, rRuns, fed, rEnded,
    \* how many of the sender's frames have been piped to the receiver
    piped

cVars == << raw, escaped, unescaped >>
sVars == << sOpts, sState, portIndex, dataStart, dataEnd, sOut, sInit, sWrites >>
rVars == << readableObjectMode, emitCommandByte, unterminatedMessage, rOut,
            rLast, rPushed, rLastPushed, rRuns, fed, rEnded >>

vars == << raw, escaped, unescaped,
           sOpts, sState, portIndex, dataStart, dataEnd, sOut, sInit, sWrites,
           readableObjectMode, emitCommandByte, unterminatedMessage, rOut,
           rLast, rPushed, rLastPushed, rRuns, fed, rEnded, piped >>

\* Bytes the codec is exercised on: the four reserved values and 'A'.
CodecBytes == { FEND, FESC, TFEND, TFESC, 65 }
\* Bytes of the chunks given to a decoder.
RecvBytes == { FEND, FESC, TFEND, TFESC, 65 }
\* Bytes of the payloads written to an encoder.
SendBytes == { FEND, FESC, 65 }

\* The state of the parts a specification does not use.
CodecIdle == raw = << >> /\ escaped = Null /\ unescaped = Null

SenderIdle ==
    /\ sOpts = Null
    /\ sState = "new"
    /\ portIndex = Null
    /\ dataStart = Null
    /\ dataEnd = Null
    /\ sOut = << >>
    /\ sInit = 0
    /\ sWrites = << >>

ReceiverNew(objectMode, commandByteMode) ==
    /\ readableObjectMode = objectMode
    /\ emitCommandByte = commandByteMode
    /\ unterminatedMessage = Null
    /\ rOut = << >>
    /\ rLast = << >>
    /\ rPushed = << >>
    /\ rLastPushed = << >>
    /\ rRuns = << >>
    /\ fed = << >>
    /\ rEnded = FALSE

\* ------------------------------------------------- escaper, as a pipeline

InitCodec ==
    /\ raw \in SeqsUpTo(CodecBytes, MaxRaw)
    /\ escaped = Null
    /\ unescaped = Null
    /\ SenderIdle
    /\ ReceiverNew(FALSE, FALSE)
    /\ piped = 0

Escape ==
    /\ escaped = Null
    /\ escaped' = Some(kissEscape(raw))
    /\ UNCHANGED << raw, unescaped, sVars, rVars, piped >>

Unescape ==
    /\ escaped # Null
    /\ unescaped = Null
    /\ unescaped' = Some(unescapeLoop(Get(escaped)))
    /\ UNCHANGED << raw, escaped, sVars, rVars, piped >>

NextCodec == Escape \/ Unescape

SpecCodec == InitCodec /\ [][NextCodec]_vars

\* ---------------------------------------------------------------- decoder

\* new KISSReceiver(opts): emitObject and emitCommandByte, each set or not.
InitRecv ==
    /\ \E objectMode \in BOOLEAN, commandByteMode \in BOOLEAN :
           ReceiverNew(objectMode, commandByteMode)
    /\ CodecIdle
    /\ SenderIdle
    /\ piped = 0

\* One call of _transform.
Transform(chunk) ==
    LET t == transform(chunk, unterminatedMessage, readableObjectMode, emitCommandByte)
    IN  /\ unterminatedMessage' = t.um
        /\ rOut' = rOut \o t.emitted
        /\ rLast' = t.emitted
        /\ rPushed' = rPushed \o t.pushed
        /\ rLastPushed' = t.pushed
        /\ rRuns' = rRuns \o t.messages
        /\ fed' = Append(fed, chunk)
        /\ UNCHANGED << readableObjectMode, emitCommandByte, rEnded >>

\* One call of _flush.
Flush ==
    LET pushed == flush(unterminatedMessage, readableObjectMode, emitCommandByte)
        emitted == pushEach(pushed, readableObjectMode)
    IN  /\ rOut' = rOut \o emitted
        /\ rLast' = emitted
        /\ rPushed' = rPushed \o pushed
        /\ rLastPushed' = pushed
        /\ rRuns' = rRuns \o (IF pushed = << >> THEN << >> ELSE unterminatedMessage)
        /\ rEnded' = TRUE
        /\ UNCHANGED << readableObjectMode, emitCommandByte, unterminatedMessage, fed >>

\* The transport writes a chunk of at least one byte.  (A chunk of no bytes
\* changes nothing in _transform.)
RecvChunk ==
    /\ ~rEnded
    /\ \E chunk \in SeqsUpTo(RecvBytes, MaxStream - SumLen(fed)) \ { << >> } :
           Transform(chunk)
    /\ UNCHANGED << cVars, sVars, piped >>

\* The transport ends.
RecvEnd ==
    /\ ~rEnded
    /\ Flush
    /\ UNCHANGED << cVars, sVars, piped >>

NextRecv == RecvChunk \/ RecvEnd

SpecRecv == InitRecv /\ [][NextRecv]_vars

\* --------------------------------------------- decoder, given whole frames

\* A frame of port 0 with the given content, as the transport delivers it.
FrameOf(content) == << 0 >> \o content \o << FEND >>

\* A decoder in any mode; raw is the content of the first frame it is given,
\* any bytes but the marker, escapes well-formed or not.
InitWholeFrames ==
    /\ raw \in SeqsUpTo(CodecBytes \ { FEND }, MaxContent)
    /\ escaped = Null
    /\ unescaped = Null
    /\ \E objectMode \in BOOLEAN, commandByteMode \in BOOLEAN :
           ReceiverNew(objectMode, commandByteMode)
    /\ SenderIdle
    /\ piped = 0

\* The transport writes a whole frame as one chunk: first the frame of raw,
\* then a frame of content 'A'.
RecvFrame ==
    /\ ~rEnded
    /\ Len(fed) < 2
    /\ Transform(IF fed = << >> THEN FrameOf(raw) ELSE FrameOf(<< 65 >>))
    /\ UNCHANGED << cVars, sVars, piped >>

NextFrames == RecvFrame \/ RecvEnd

SpecFrames == InitWholeFrames /\ [][NextFrames]_vars

\* C1: for every byte sequence b, the decoder's escape-removal loop applied
\* to kissEscape(b) returns exactly b.
C1_RoundTrip == unescaped # Null => Get(unescaped) = raw

\* ---------------------------------------------------------------- encoder

NoConfig ==
    [ fullDuplex |-> Null, hardware |-> Null, persistence |-> Null,
      slotTime |-> Null, txDelay |-> Null, txTail |-> Null ]

WithPort(config, p) ==
    [ portIndex |-> p, fullDuplex |-> config.fullDuplex, hardware |-> config.hardware,
      persistence |-> config.persistence, slotTime |-> config.slotTime,
      txDelay |-> config.txDelay, txTail |-> config.txTail ]

\* The values of opts.portIndex tried: none, non-integers, and the integers
\* from one below to one above the ports.
PortInputs ==
    { Null, Some(PNonInteger(TRUE)), Some(PNonInteger(FALSE)) }
        \cup { Some(PInt(n)) : n \in (0 - 1)..16 }

\* The configurations tried by SpecSend: none, that of the README, and one
\* with every other field, one of them zero.
SendConfigs ==
    { NoConfig,
      [ NoConfig EXCEPT !.slotTime = Some(420), !.hardware = Some(HString(<< 98 >>)) ],
      [ NoConfig EXCEPT !.fullDuplex = Some(TRUE), !.persistence = Some(16),
                        !.txDelay = Some(100), !.txTail = Some(0) ] }

\* new KISSSender(opts)
Construct ==
    /\ sState = "new"
    /\ LET p == portIndexOf(Get(sOpts))
       IN  IF throws(p)
           THEN /\ sState' = "failed"
                /\ UNCHANGED << portIndex, dataStart, dataEnd, sOut, sInit >>
           ELSE LET frames == initFrames(Get(sOpts), p.n, 1)
                IN  /\ sState' = "open"
                    /\ portIndex' = Some(p.n)
                    /\ dataStart' = Some(<< FEND, parseHex(p.n, 0) >>)
                    /\ dataEnd' = Some(<< FEND >>)
                    /\ sOut' = frames
                    /\ sInit' = Len(frames)
    /\ UNCHANGED << sOpts, sWrites, cVars, rVars, piped >>

\* KISSSender._transform
Write(chunk) ==
    LET escapedChunk == kissEscape(chunk)
        frame == Get(dataStart) \o escapedChunk \o Get(dataEnd)
    IN  /\ sOut' = Append(sOut, frame)
        /\ sWrites' = Append(sWrites, chunk)
        /\ UNCHANGED << sOpts, sState, portIndex, dataStart, dataEnd, sInit >>

\* A payload is written to the sender.
SendWrite ==
    /\ sState = "open"
    /\ Len(sWrites) < MaxWrites
    /\ \E chunk \in SeqsUpTo(SendBytes, MaxWritten - SumLen(sWrites)) : Write(chunk)
    /\ UNCHANGED << cVars, rVars, piped >>

\* The sender's input ends: KISSSender._flush
SendEnd ==
    /\ sState = "open"
    /\ sOut' = Append(sOut, exitKissFrame(Get(portIndex)))
    /\ sState' = "ended"
    /\ UNCHANGED << sOpts, portIndex, dataStart, dataEnd, sInit, sWrites,
                    cVars, rVars, piped >>

InitSend ==
    /\ sOpts \in { Some(WithPort(config, p)) : config \in SendConfigs, p \in PortInputs }
    /\ sState = "new"
    /\ portIndex = Null
    /\ dataStart = Null
    /\ dataEnd = Null
    /\ sOut = << >>
    /\ sInit = 0
    /\ sWrites = << >>
    /\ CodecIdle
    /\ ReceiverNew(FALSE, FALSE)
    /\ piped = 0

NextSend == Construct \/ SendWrite \/ SendEnd

SpecSend == InitSend /\ [][NextSend]_vars

\* --------------------------------------- encoder, over its configurations

\* The configurations tried by SpecConfigured: every field absent, falsy or
\* set, in every combination.  The hardware is an empty string, the string
\* 'b', an empty array or the array [98, 192]; persistence 272 is above a
\* byte; slotTime 2560 and txDelay 105 are a value above 255 ticks and one
\* that is no whole number of ticks.
ConfigSpace ==
    [ fullDuplex : { Null, Some(TRUE), Some(FALSE) },
      hardware : { Null, Some(HString(<< >>)), Some(HString(<< 98 >>)),
                   Some(HArray(<< >>)), Some(HArray(<< 98, FEND >>)) },
      persistence : { Null, Some(0), Some(16), Some(272) },
      slotTime : { Null, Some(0), Some(420), Some(2560) },
      txDelay : { Null, Some(0), Some(105) },
      txTail : { Null, Some(0), Some(100) } ]

\* The payloads written in SpecConfigured: 'A' and the README's [192, 219].
ConfigPayloads == { << 65 >>, << FEND, FESC >> }

InitConfigured ==
    /\ sOpts \in { Some(WithPort(config, Some(PInt(n)))) :
                      config \in ConfigSpace, n \in 0..15 }
    /\ sState = "new"
    /\ portIndex = Null
    /\ dataStart = Null
    /\ dataEnd = Null
    /\ sOut = << >>
    /\ sInit = 0
    /\ sWrites = << >>
    /\ CodecIdle
    /\ ReceiverNew(FALSE, FALSE)
    /\ piped = 0

\* A payload is written to the configured sender.
ConfigWrite ==
    /\ sState = "open"
    /\ Len(sWrites) < MaxWrites
    /\ \E chunk \in ConfigPayloads : Write(chunk)
    /\ UNCHANGED << cVars, rVars, piped >>

NextConfigured == Construct \/ ConfigWrite \/ SendEnd

SpecConfigured == InitConfigured /\ [][NextConfigured]_vars

\* ------------------------------------------- encoder piped into a decoder

\* A sender given a port and nothing else, piped into a default receiver.
InitLoop ==
    /\ sOpts \in { Some(WithPort(NoConfig, Some(PInt(n)))) : n \in 0..15 }
    /\ sState = "new"
    /\ portIndex = Null
    /\ dataStart = Null
    /\ dataEnd = Null
    /\ sOut = << >>
    /\ sInit = 0
    /\ sWrites = << >>
    /\ CodecIdle
    /\ ReceiverNew(FALSE, FALSE)
    /\ piped = 0

\* The pipe hands the receiver the sender's next frame as one chunk.
Pipe ==
    /\ piped < Len(sOut)
    /\ ~rEnded
    /\ Transform(sOut[piped + 1])
    /\ piped' = piped + 1
    /\ UNCHANGED << cVars, sVars >>

\* The pipe ends the receiver once the sender has ended and is drained.
PipeEnd ==
    /\ sState = "ended"
    /\ piped = Len(sOut)
    /\ ~rEnded
    /\ Flush
    /\ UNCHANGED << cVars, sVars, piped >>

NextLoop == Construct \/ SendWrite \/ SendEnd \/ Pipe \/ PipeEnd

SpecLoop == InitLoop /\ [][NextLoop]_vars

\* ------------------------------------------------------ decoder properties

\* All bytes given to the decoder so far, in order.
Stream == Concat(fed)

\* The messages emitted by the calls of _transform (not by _flush).
ChunkEmitted == IF rEnded THEN SubSeq(rOut, 1, Len(rOut) - Len(rLast)) ELSE rOut

\* The arguments of the calls of this.push made by _transform.
ChunkPushes ==
    IF rEnded
    THEN SubSeq(rPushed, 1, Len(rPushed) - Len(rLastPushed))
    ELSE rPushed

Bytes(seq) == { seq[k] : k \in 1..Len(seq) }

\* The message for command byte c and decoded content d in the decoder's mode.
Shape(c, d) ==
    IF readableObjectMode
    THEN Object(c \div 16, d)
    ELSE IF emitCommandByte THEN Buffer(<< c >> \o d) ELSE Buffer(d)

\* The number of non-empty maximal marker-delimited runs of a stream that a
\* marker has closed: the markers that follow a byte that is no marker.
ClosedRuns(stream) ==
    Cardinality({ k \in 2..Len(stream) : stream[k] = FEND /\ stream[k - 1] # FEND })

\* C2: however the stream is cut into chunks, the messages emitted while
\* processing the chunks are those emitted for the whole stream as one chunk.
C2_ChunkingIndependent ==
    ChunkEmitted =
        transform(Stream, Null, readableObjectMode, emitCommandByte).emitted

\* C3: a default-mode decoder given [FEND, commandByte], then one or more
\* chunks without a marker, then [FEND], emits exactly one message, the
\* concatenation of the marker-free chunks.  (Stated for chunks that hold no
\* escape marker either, so that decoding leaves their bytes as they are.)
C3_AccumulatesMarkerFreeChunks ==
    ( /\ ~readableObjectMode
      /\ ~emitCommandByte
      /\ ~rEnded
      /\ Len(fed) >= 3
      /\ Len(fed[1]) = 2
      /\ fed[1][1] = FEND
      /\ fed[1][2] \notin { FEND, FESC }
      /\ fed[Len(fed)] = << FEND >>
      /\ \A k \in 2..(Len(fed) - 1) : Bytes(fed[k]) \cap { FEND, FESC } = { } )
    => rOut = << Buffer(Concat(SubSeq(fed, 2, Len(fed) - 1))) >>

\* C7: the number of messages emitted while processing chunks is the number
\* of non-empty runs a marker has closed; adjacent markers add none, and a
\* stream of markers alone emits nothing.
C7_EmptyRunsEmitNothing ==
    /\ Len(ChunkEmitted) = ClosedRuns(Stream)
    /\ (Bytes(Stream) \subseteq { FEND } => rOut = << >>)

\* C8: at the end of the stream a decoder that holds a buffer emits exactly
\* one final message, made of the buffer's command byte and content in the
\* decoder's mode (compared here where the buffer holds no escape marker),
\* and an idle decoder emits none.
C8_EndOfStreamDelivery ==
    rEnded =>
        IF unterminatedMessage # Null
        THEN /\ Len(rLast) = 1
             /\ FESC \notin Bytes(Get(unterminatedMessage)) =>
                    rLast[1] = Shape(Head(Get(unterminatedMessage)),
                                     Tail(Get(unterminatedMessage)))
        ELSE rLast = << >>

\* C9: what is emitted at the end of the stream for the buffered run is
\* what is emitted for that run when a marker closes it: the message
\* interpretMessage gives for it, pushed.
C9_FlushInterpretsLikeClosedRun ==
    (rEnded /\ unterminatedMessage # Null) =>
        rLast = push(interpretMessage(Get(unterminatedMessage),
                                      readableObjectMode, emitCommandByte),
                     readableObjectMode)

\* unescape(d), read left to right: FESC TFEND is FEND, FESC TFESC is FESC,
\* FESC with any other byte is dropped with that byte, a last FESC is dropped.
RECURSIVE RefUnescape(_)
RefUnescape(d) ==
    IF d = << >>
    THEN << >>
    ELSE IF Head(d) # FESC
         THEN << Head(d) >> \o RefUnescape(Tail(d))
         ELSE IF Len(d) = 1
              THEN << >>
              ELSE (IF d[2] = TFEND THEN << FEND >>
                    ELSE IF d[2] = TFESC THEN << FESC >>
                    ELSE << >>) \o RefUnescape(SubSeq(d, 3, Len(d)))

\* The non-empty maximal marker-free runs of a stream that a marker has
\* closed, in the order of their closing markers; current is the run so far.
RECURSIVE RunsFrom(_, _)
RunsFrom(stream, current) ==
    IF stream = << >>
    THEN << >>
    ELSE IF Head(stream) = FEND
         THEN (IF current = << >> THEN << >> ELSE << current >>)
                  \o RunsFrom(Tail(stream), << >>)
         ELSE RunsFrom(Tail(stream), Append(current, Head(stream)))

Runs(stream) == RunsFrom(stream, << >>)

Markers(chunk) == Cardinality({ k \in 1..Len(chunk) : chunk[k] = FEND })

\* The bytes of a chunk after its last marker.
AfterLastMarker(chunk) ==
    LET last == CHOOSE k \in 1..Len(chunk) :
                    chunk[k] = FEND /\ \A j \in (k + 1)..Len(chunk) : chunk[j] # FEND
    IN  SubSeq(chunk, last + 1, Len(chunk))

IsSuffix(a, b) ==
    Len(a) <= Len(b) /\ a = SubSeq(b, Len(b) - Len(a) + 1, Len(b))

IsPrefix(a, b) == Len(a) <= Len(b) /\ a = SubSeq(b, 1, Len(a))

LastChunk == fed[Len(fed)]

\* The source runs of the messages pushed by the calls of _transform.
ChunkRuns == SubSeq(rRuns, 1, Len(ChunkPushes))

\* Whether a message is one a consumer gets: any but a Buffer of no bytes
\* in byte mode.
NotEmpty(message) == readableObjectMode \/ message.data # << >>

\* The message the specification gives for a run: Shape of its first byte
\* and of the unescape of the rest.
ShapeOfRun(run) == Shape(Head(run), RefUnescape(Tail(run)))

\* C12: every run with first byte c and remaining bytes d that the decoder
\* makes a message of is pushed as unescape(d) in default mode, as c
\* followed by unescape(d) in emitCommandByte mode, and as the record of
\* c >> 4 and unescape(d) in emitObject mode, also when emitCommandByte is
\* set with it; the messages emitted are those, in order, that hold a byte.
C12_MessageShapeByMode ==
    /\ Len(rPushed) = Len(rRuns)
    /\ \A k \in 1..Len(rPushed) : rPushed[k] = ShapeOfRun(rRuns[k])
    /\ rOut = SelectSeq([ k \in 1..Len(rRuns) |-> ShapeOfRun(rRuns[k]) ], NotEmpty)

\* C16: while processing a chunk the decoder emits at most as many messages
\* as the chunk holds markers, and none for a chunk without a marker,
\* whatever its state; it does not even call this.push more often.
C16_NoMessageWithoutMarker ==
    (fed # << >> /\ ~rEnded) =>
        /\ Len(rLast) <= Len(rLastPushed)
        /\ Len(rLastPushed) <= Markers(LastChunk)

C16_Witness ==
    /\ ~rEnded
    /\ Len(fed) = 3
    /\ Markers(fed[1]) = 1
    /\ Markers(fed[2]) = 0
    /\ Markers(fed[3]) = 0
    /\ unterminatedMessage # Null
    /\ Len(rOut) = 1

\* C17: messages are pushed in the order of their closing markers, the
\* k-th from bytes of the k-th closed run alone (so no byte is part of two
\* messages), and the messages emitted are the pushed ones, in that order,
\* but for those of no bytes; the output only grows, and once a chunk has
\* been processed the message of every run closed so far has been pushed.
C17_EmissionOrder ==
    /\ [](/\ Len(rPushed) = Len(rRuns)
          /\ Len(ChunkRuns) = Len(Runs(Stream))
          /\ \A k \in 1..Len(ChunkRuns) :
                 ChunkRuns[k] # << >> /\ IsSuffix(ChunkRuns[k], Runs(Stream)[k])
          /\ rOut = SelectSeq(rPushed, NotEmpty))
    /\ [][/\ IsPrefix(rOut, rOut')
          /\ IsPrefix(rPushed, rPushed')
          /\ IsPrefix(rRuns, rRuns')
          /\ fed' # fed => Len(rPushed') = ClosedRuns(Concat(fed'))]_vars

C17_Witness ==
    /\ ~rEnded
    /\ Len(fed) = 2
    /\ Len(rRuns) = 2
    /\ rRuns[1] # rRuns[2]
    /\ Markers(fed[1]) = 1
    /\ Markers(fed[2]) = 1

\* C18: after a chunk with at least one marker the buffer is exactly the
\* bytes after the chunk's last marker, and the decoder is idle when there
\* are none; a chunk that starts with a marker while a buffer exists closes
\* that buffer as one message.
C18_BufferClearing ==
    /\ []((fed # << >> /\ ~rEnded /\ Markers(LastChunk) > 0) =>
              unterminatedMessage =
                  (IF AfterLastMarker(LastChunk) = << >>
                   THEN Null
                   ELSE Some(AfterLastMarker(LastChunk))))
    /\ [][(fed' # fed /\ unterminatedMessage # Null /\ Head(fed'[Len(fed')]) = FEND) =>
              /\ Len(rRuns') > Len(rRuns)
              /\ rRuns'[Len(rRuns) + 1] = Get(unterminatedMessage)]_vars

C18_Witness ==
    /\ ~rEnded
    /\ Len(fed) = 2
    /\ Markers(fed[1]) = 0
    /\ Len(fed[2]) = 3
    /\ Head(fed[2]) = FEND
    /\ Markers(fed[2]) = 1
    /\ rRuns = << fed[1] >>
    /\ unterminatedMessage = Some(Tail(fed[2]))

\* C19: between chunks the decoder is idle or holds a non-empty buffer, the
\* buffer never holds a marker, a new decoder is idle, and the run of no
\* emitted message holds a marker.
C19_DecoderStateInvariant ==
    /\ unterminatedMessage # Null =>
           /\ Get(unterminatedMessage) # << >>
           /\ FEND \notin Bytes(Get(unterminatedMessage))
    /\ fed = << >> => unterminatedMessage = Null
    /\ \A k \in 1..Len(rRuns) : FEND \notin Bytes(rRuns[k])

C19_Witness ==
    /\ ~rEnded
    /\ unterminatedMessage # Null
    /\ Len(rRuns) = 1
    /\ Markers(Stream) = 2

\* The positions of the escape markers of a content read left to right from
\* position i: a FESC and the byte after it are read together.
RECURSIVE EscapeMarkersFrom(_, _)
EscapeMarkersFrom(content, i) ==
    IF i > Len(content)
    THEN { }
    ELSE IF content[i] = FESC
         THEN { i } \cup EscapeMarkersFrom(content, i + 2)
         ELSE EscapeMarkersFrom(content, i + 1)

\* The escape markers of a content that a byte other than TFEND and TFESC
\* follows.
MalformedEscapes(content) ==
    { i \in EscapeMarkersFrom(content, 1) :
          i < Len(content) /\ content[i + 1] \notin { TFEND, TFESC } }

\* A content without the two bytes at i and i + 1.
Without(content, i) == SubSeq(content, 1, i - 1) \o SubSeq(content, i + 2, Len(content))

\* C13: a frame whose content holds a malformed escape (FESC followed by a
\* byte other than TFEND and TFESC) is still emitted, as the message the
\* decoder emits for the content without those two bytes; the frame after it
\* is decoded as usual.
C13_MalformedEscapeDropped ==
    /\ fed # << >> =>
           /\ Len(rOut) >= 1
           /\ \A i \in MalformedEscapes(raw) :
                  rOut[1] = interpretMessage(<< 0 >> \o Without(raw, i),
                                             readableObjectMode, emitCommandByte)
    /\ (Len(fed) = 2 /\ ~rEnded) => rOut = << rOut[1], Shape(0, << 65 >>) >>

\* ------------------------------------------------------ encoder properties

\* escape(payload): FEND becomes FESC TFEND, FESC becomes FESC TFESC, and
\* every other byte stays.
RECURSIVE Escaped(_)
Escaped(b) ==
    IF b = << >>
    THEN << >>
    ELSE (IF Head(b) = FEND THEN << FESC, TFEND >>
          ELSE IF Head(b) = FESC THEN << FESC, TFESC >>
          ELSE << Head(b) >>) \o Escaped(Tail(b))

Constructed == sState \in { "open", "ended" }

\* Whether opts.portIndex is an integer 0..15.
ValidPort ==
    /\ Get(sOpts).portIndex # Null
    /\ Get(Get(sOpts).portIndex).isInteger
    /\ Get(Get(sOpts).portIndex).n \in 0..15

\* C4: the data frame of a sender with any port 0..15 for any non-empty
\* payload, fed to a default-mode receiver, yields exactly one message,
\* equal to the payload.
C4_PayloadIdentity ==
    ( /\ piped <= Len(sWrites)
      /\ \A k \in 1..piped : sWrites[k] # << >> )
    => rOut = [ k \in 1..piped |-> Buffer(sWrites[k]) ]

\* C5: the k-th write produces exactly one frame, the k-th after those of
\* the constructor: FEND, the port's data command byte, the escaped payload,
\* FEND.  Writes are never coalesced.
C5_OneFramePerWrite ==
    Constructed =>
        /\ Len(sOut) = sInit + Len(sWrites) + (IF sState = "ended" THEN 1 ELSE 0)
        /\ \A k \in 1..Len(sWrites) :
               sOut[sInit + k] =
                   << FEND, 16 * Get(portIndex) >> \o Escaped(sWrites[k]) \o << FEND >>

C5_Witness ==
    /\ sState = "open"
    /\ Get(portIndex) = 12
    /\ sInit > 0
    /\ Len(sWrites) = 2
    /\ sWrites[2] = << FEND, FESC >>
    /\ sOut[sInit + 2] = << FEND, FEND, FESC, TFEND, FESC, TFESC, FEND >>

\* C6: construction fails, and no frame is emitted, whenever the port index
\* is absent, is no integer or is outside 0..15; it succeeds otherwise.
C6_ConstructionFailsWithoutPort ==
    sState # "new" =>
        IF ValidPort THEN Constructed ELSE sState = "failed" /\ sOut = << >>

\* C10: once its input has ended the encoder has emitted exactly one
\* termination frame FEND, 0xFF, FEND, as the last frame of its output, and
\* before that it has emitted none.
C10_OneTerminationFrame ==
    LET exits == { k \in 1..Len(sOut) : sOut[k] = << FEND, 255, FEND >> }
    IN  IF sState = "ended"
        THEN exits = { Len(sOut) } /\ Len(sOut) = sInit + Len(sWrites) + 1
        ELSE exits = { }

C10_Witness ==
    /\ sState = "ended"
    /\ portIndex = Some(3)
    /\ sInit > 0
    /\ Len(sWrites) > 0
    /\ sOut[Len(sOut)] = << FEND, 255, FEND >>

\* The options the sender was constructed with, and its port.
Opts == Get(sOpts)
Port == Get(portIndex)

Fields == { "fullDuplex", "hardware", "persistence", "slotTime", "txDelay", "txTail" }
TimeFields == { "slotTime", "txDelay", "txTail" }

\* The command kind of a field, as the protocol numbers them.
KindOf(f) ==
    CASE f = "txDelay" -> 1
      [] f = "persistence" -> 2
      [] f = "slotTime" -> 3
      [] f = "txTail" -> 4
      [] f = "fullDuplex" -> 5
      [] f = "hardware" -> 6

\* Whether a field was supplied, and with a value that is not falsy: not
\* false, not zero, not the empty string.
Supplied(f) == Opts[f] # Null

Truthy(f) ==
    /\ Supplied(f)
    /\ CASE f = "fullDuplex" -> Get(Opts[f])
          [] f = "hardware" -> ~(Get(Opts[f]).isString /\ Get(Opts[f]).bytes = << >>)
          [] OTHER -> Get(Opts[f]) # 0

\* The frames emitted at construction that carry the command of field f.
InitFramesOf(f) == { k \in 1..sInit : sOut[k][2] = 16 * Port + KindOf(f) }

\* The statement of C11 as written: the value byte of a time field is the
\* value divided by 10, that of persistence the value itself.
C11_ValueDividedByTen ==
    Constructed =>
        /\ \A f \in TimeFields :
               Truthy(f) =>
                   \E k \in 1..sInit :
                       /\ Len(sOut[k]) = 4
                       /\ sOut[k][1] = FEND
                       /\ sOut[k][2] = 16 * Port + KindOf(f)
                       /\ 10 * sOut[k][3] = Get(Opts[f])
                       /\ sOut[k][4] = FEND
        /\ Truthy("persistence") =>
               \E k \in 1..sInit :
                   sOut[k] = << FEND, 16 * Port + 2, Get(Opts.persistence), FEND >>
        /\ Truthy("hardware") =>
               \E k \in 1..sInit :
                   sOut[k] = << FEND, 16 * Port + 6 >> \o Get(Opts.hardware).bytes \o << FEND >>

\* C11: for every port p and every time field f (txDelay, slotTime, txTail)
\* supplied with a non-zero value v, the encoder emits at construction,
\* before any data frame, the frame FEND, 16p + kind(f), b, FEND, where b is
\* the whole part of v / 10 modulo 256 (v / 10 itself when v is a multiple
\* of 10 up to 2550); persistence is sent as its value modulo 256 and
\* hardware as its bytes, not escaped.
C11_ValueInTicksModulo ==
    Constructed =>
        /\ \A f \in TimeFields :
               Truthy(f) =>
                   \E k \in 1..sInit :
                       sOut[k] = << FEND, 16 * Port + KindOf(f),
                                    (Get(Opts[f]) \div 10) % 256, FEND >>
        /\ Truthy("persistence") =>
               \E k \in 1..sInit :
                   sOut[k] = << FEND, 16 * Port + 2, Get(Opts.persistence) % 256, FEND >>
        /\ Truthy("hardware") =>
               \E k \in 1..sInit :
                   sOut[k] = << FEND, 16 * Port + 6 >> \o Get(Opts.hardware).bytes \o << FEND >>

C11_Witness ==
    /\ sState = "open"
    /\ portIndex = Some(12)
    /\ Opts.slotTime = Some(420)
    /\ Opts.txDelay = Some(105)
    /\ \E k \in 1..sInit : sOut[k] = << FEND, 195, 42, FEND >>
    /\ \E k \in 1..sInit : sOut[k] = << FEND, 193, 10, FEND >>
    /\ Len(sWrites) = 1
    /\ Len(sOut) = sInit + 1

\* C14: at construction the encoder emits exactly one frame for each field
\* (fullDuplex, hardware, persistence, slotTime, txDelay, txTail) supplied
\* with a value that is not falsy, none for a field that is not supplied or
\* is supplied as false, zero or the empty string, and no other frame.
C14_OneFramePerSuppliedField ==
    Constructed =>
        /\ \A f \in Fields :
               Cardinality(InitFramesOf(f)) = (IF Truthy(f) THEN 1 ELSE 0)
        /\ sInit = Cardinality({ f \in Fields : Truthy(f) })

C14_Witness ==
    /\ sState = "open"
    /\ sWrites = << >>
    /\ Opts.fullDuplex = Some(FALSE)
    /\ Opts.hardware = Some(HArray(<< >>))
    /\ Opts.persistence = Null
    /\ Opts.slotTime = Some(420)
    /\ Opts.txDelay = Some(0)
    /\ Opts.txTail = Some(100)
    /\ Len(sOut) = 3

\* The documented order of the initialization frames.
InitOrder == << "fullDuplex", "hardware", "persistence", "slotTime", "txDelay", "txTail" >>

\* The place in that order of the field whose command kind is n.
OrderOfKind(n) == CHOOSE i \in 1..Len(InitOrder) : KindOf(InitOrder[i]) = n

\* The command kind of the k-th frame emitted.
KindAt(k) == sOut[k][2] % 16

\* C15: the output is initialization frames, then data frames, then the
\* termination frame; the initialization frames come in the order
\* fullDuplex, hardware, persistence, slotTime, txDelay, txTail and are all
\* emitted at construction, before every data frame; the output only grows.
C15_OutputOrdering ==
    /\ [](Constructed =>
              /\ sInit <= Len(sOut)
              /\ \A k \in 1..sInit : KindAt(k) \in 1..6
              /\ \A j, k \in 1..sInit :
                     j < k => OrderOfKind(KindAt(j)) < OrderOfKind(KindAt(k))
              /\ \A k \in (sInit + 1)..Len(sOut) :
                     IF sState = "ended" /\ k = Len(sOut)
                     THEN KindAt(k) = 15
                     ELSE KindAt(k) = 0)
    /\ [][/\ IsPrefix(sOut, sOut')
          /\ sState = "open" => sInit' = sInit]_vars

C15_Witness ==
    /\ sState = "ended"
    /\ sInit = 6
    /\ Len(sWrites) = 2
    /\ Len(sOut) = 9

\* The command byte of the k-th frame emitted: that of its field for an
\* initialization frame, 16p for a data frame, 255 for the termination.
CommandByteAt(k) ==
    IF k <= sInit
    THEN 16 * Port + KindAt(k)
    ELSE IF sState = "ended" /\ k = Len(sOut) THEN 255 ELSE 16 * Port

\* C20: every frame the encoder emits holds the marker as its first and its
\* last byte only, so that a decoder reads it as exactly one run, whose
\* first byte is the frame's command byte.
C20_FramesWellFormed ==
    Constructed =>
        \A k \in 1..Len(sOut) :
            /\ Len(sOut[k]) >= 3
            /\ { j \in 1..Len(sOut[k]) : sOut[k][j] = FEND } = { 1, Len(sOut[k]) }
            /\ Len(Runs(sOut[k])) = 1
            /\ Head(Runs(sOut[k])[1]) = CommandByteAt(k)

====
